---------------------------- MODULE Spec2Model ----------------------------
(***************************************************************************)
(* Four Agents in a Room (four_agents_room.py): the room state, the agent  *)
(* proxies, the room controller with its console and heartbeat threads,    *)
(* and the voice queue with its worker.                                    *)
(*                                                                         *)
(* Texts are strings; wall-clock values (the "time" field of a history     *)
(* entry, the time and the elapsed duration written into a context block)  *)
(* are left out of the records that carry them.                            *)
(***************************************************************************)
EXTENDS Integers, Sequences, FiniteSets, TLC

\* ------------------------------------------------------------------ data

\* initialize_agents creates the agents in this order.
Names == <<"Alice", "Bob", "Charlie", "Diana">>

NameSet == {Names[i] : i \in 1..Len(Names)}

\* Names an operator can type at the console: the four agents and a stranger.
NameInputs == NameSet \cup {"Eve"}

\* Python's None.
None == "<None>"

\* len(self.recent_messages) > 50
HistoryCap == 50

\* len(text) > 5
MinSpeakLen == 5

\* The message an operator types at the console (long enough to be spoken).
Msgs == {"gather round"}

\* Responses of the backend to send_message: the turns of the response, each
\* with a role, a text (None when absent) and the arguments of its tool calls.
Turn(role, text, tool_calls) ==
    [role |-> role, text |-> text, tool_calls |-> tool_calls]

\* The responses the console runs are given: a plain text turn, and a turn
\* that carries a tool call and no text.
Responses ==
    { <<Turn("assistant", "I hear you", <<>>)>>,
      <<Turn("assistant", None, <<"{}">>)>> }

\* The turns a response to a direct call of send_message is made of: of the
\* assistant or of a tool, with no text, an empty text or a text, and with no
\* tool call, one, or two.
TurnRoles == {"assistant", "tool"}
TurnTexts == {None, "", "I hear you"}
TurnCalls == {<<>>, <<"{}">>, <<"{\"to\": \"Bob\"}", "{}">>}
Turns == {Turn(r, t, c) : r \in TurnRoles, t \in TurnTexts, c \in TurnCalls}

\* Threads that call add_message at the same time (the record operation
\* driven from several threads).
Threads == {"t1", "t2"}

\* The worker holds no request.
NoRequest == <<None, None>>

\* The speakers and the texts handed to say by a direct caller: no text, a
\* text of 5 characters, one of 6 and a longer one.
Speakers == {"Loudspeaker", "Alice"}
Utterances == {"", "hello", "hello!", "gather round"}

\* ---------------------------------------------------------------- bounds

\* Console commands that exchange messages (broadcast to a non-empty room,
\* send between known agents) accepted in one run.
MaxMsgCmds == 1

\* Calls of add_message the threads that call it directly make in one run.
MaxCalls == 52

\* Calls of say a direct caller of the voice channel makes in one run.
MaxSays == 3

\* Turns in a response the backend gives to a direct call of send_message.
MaxTurns == 2

\* Direct calls of update_time_context in one run.
MaxRefresh == 2

\* Advances of the clock between calls of time_elapsed in one run.
MaxTicks == 3

\* ------------------------------------------------------- pure operations

\* RoomState.add_message, the entry it builds.
Entry(sender, content, recipient) ==
    [sender |-> sender, content |-> content,
     recipient |-> IF recipient \in {None, ""} THEN "room" ELSE recipient]

\* RoomState.add_message on the history h.
add_message(h, sender, content, recipient) ==
    LET h1 == Append(h, Entry(sender, content, recipient))
    IN  IF Len(h1) > HistoryCap THEN Tail(h1) ELSE h1

\* VoiceSynthesizer.say on the queue q.
say_no_length_test(q, en, speaker, text) ==
    IF en /\ text # "" THEN Append(q, <<speaker, text>>) ELSE q

say(q, en, speaker, text) ==
    IF en /\ text # "" /\ Len(text) > MinSpeakLen
    THEN Append(q, <<speaker, text>>)
    ELSE q

\* RoomAgent.send_message, the reply it extracts from the response: the
\* conditional expression binds as (text or arguments) if tool_calls else "...".
ExtractReply(resp) ==
    LET idx == {i \in 1..Len(resp) : resp[i].role = "assistant"}
    IN  IF idx = {} THEN "..."
        ELSE LET m == resp[CHOOSE i \in idx : \A j \in idx : i <= j]
             IN  IF m.tool_calls # <<>>
                 THEN IF m.text \notin {None, ""} THEN m.text
                      ELSE m.tool_calls[1]
                 ELSE "..."

\* The amounts, in seconds, the clock advances by between two looks at it: a
\* second, a minute, an hour and a day, and one second less than each.
SecondsPerDay == 86400
ClockSteps == {1, 59, 60, 3599, 3600, SecondsPerDay - 1, SecondsPerDay}

\* A timedelta of d whole seconds, d >= 0: its days and its seconds fields.
Timedelta(d) == [days |-> d \div SecondsPerDay, seconds |-> d % SecondsPerDay]

\* Python's divmod on non-negative integers.
divmod(a, b) == <<a \div b, a % b>>

\* The format {n:02d}: at least two digits.
Format02d(n) == IF n < 10 THEN "0" \o ToString(n) ELSE ToString(n)

\* RoomState.time_elapsed for the timedelta delta.
time_elapsed(delta) ==
    LET hr == divmod(delta.seconds, 3600)
        ms == divmod(hr[2], 60)
    IN  Format02d(hr[1]) \o ":" \o Format02d(ms[1]) \o ":" \o Format02d(ms[2])

\* Every list a Python set S can be iterated as: its elements in some order.
Orders(S) ==
    {s \in [1..Cardinality(S) -> S] : \A i, j \in 1..Cardinality(S) :
                                          i # j => s[i] # s[j]}

\* The context value update_time_context writes, as far as it tells the agent
\* where it is (the names of the others present, the time and the elapsed
\* duration in the same text are not kept).
ContextValue(present_flag) == IF present_flag THEN "room" ELSE "alone"

\* ----------------------------------------------------------------- state

VARIABLES
    \* RoomState
    agents_present, agents_alone, recent_messages,
    \* RoomAgent, one per constructed proxy
    is_present, agent_id, other_agents,
    \* Room
    agents, running,
    \* VoiceSynthesizer
    enabled, voice_running, voice_queue,
    \* the backend: each agent's room_context block
    room_context,
    \* the main thread: where it is, the command it runs and its locals
    pc, cmd, present, responses, utc_val, result,
    \* the backend calls of the command in progress, the state it started
    \* from, and the message commands accepted so far
    calls, pre, msg_cmds,
    \* the heartbeat thread
    hb_pc, hb_i, hb_val, hb_seen,
    \* the voice worker thread: where it is, the request and the temporary
    \* file it holds, the temporary files that exist, how many were made, and
    \* the requests dequeued and the requests played so far
    vw_pc, vw_req, vw_tmp, tmp_files, n_tmp, consumed, played,
    \* every (speaker, text) handed to say by a direct caller, in order
    said,
    \* threads calling add_message directly: where each is, the calls
    \* started, and every entry in the order appended
    am_pc, n_calls, appended,
    \* a direct call of send_message: where it is, the response the backend
    \* gave and the reply returned
    sm_pc, sm_response, sm_reply,
    \* a direct call of update_time_context: where it is, the proxy it is on,
    \* the value it computed, the calls started, and how many returned at the
    \* test of agent_id and how many called the backend
    rf_pc, rf_agent, rf_val, rf_n, rf_skipped, rf_backend,
    \* RoomState.start_time and the clock, in whole seconds, the advances of
    \* the clock so far, and what the last call of time_elapsed returned
    start_time, now, n_ticks, elapsed

roomVars == <<agents_present, agents_alone, recent_messages>>
agentVars == <<is_present, agent_id, other_agents>>
voiceVars == <<enabled, voice_running, voice_queue>>
mainVars == <<pc, cmd, present, responses, utc_val, result, calls, pre, msg_cmds>>
hbVars == <<hb_pc, hb_i, hb_val, hb_seen>>
workerVars == <<vw_pc, vw_req, vw_tmp, tmp_files, n_tmp, consumed, played,
                said>>
amVars == <<am_pc, n_calls, appended>>
deliverVars == <<sm_pc, sm_response, sm_reply>>
refreshVars == <<rf_pc, rf_agent, rf_val, rf_n, rf_skipped, rf_backend>>
clockVars == <<start_time, now, n_ticks, elapsed>>

vars == <<roomVars, agentVars, agents, running, voiceVars, room_context,
          mainVars, hbVars, workerVars, amVars, deliverVars, refreshVars, clockVars>>

NoCmd == [op |-> "none"]
NoPre == [op |-> "none"]

\* Room.__init__ (RoomState(), VoiceSynthesizer.__init__), before main calls
\* initialize_agents. Voice is enabled when edge_tts could be imported.
Init ==
    /\ agents_present = {}
    /\ agents_alone = {}
    /\ recent_messages = <<>>
    /\ is_present = <<>>
    /\ agent_id = <<>>
    /\ other_agents = <<>>
    /\ agents = <<>>
    /\ running = FALSE
    /\ enabled \in BOOLEAN
    /\ voice_running = FALSE
    /\ voice_queue = <<>>
    /\ room_context = <<>>
    /\ pc = "ia_new"
    /\ cmd = NoCmd
    /\ present = <<>>
    /\ responses = <<>>
    /\ utc_val = None
    /\ result = None
    /\ calls = <<>>
    /\ pre = NoPre
    /\ msg_cmds = 0
    /\ hb_pc = "off"
    /\ hb_i = 0
    /\ hb_val = None
    /\ hb_seen = 0
    /\ vw_pc = "off"
    /\ vw_req = NoRequest
    /\ vw_tmp = 0
    /\ tmp_files = {}
    /\ n_tmp = 0
    /\ consumed = <<>>
    /\ played = <<>>
    /\ said = <<>>
    /\ sm_pc = "idle"
    /\ sm_response = <<>>
    /\ sm_reply = None
    /\ rf_pc = "idle"
    /\ rf_agent = None
    /\ rf_val = None
    /\ rf_n = 0
    /\ rf_skipped = 0
    /\ rf_backend = 0
    /\ start_time = 0
    /\ now = 0
    /\ n_ticks = 0
    /\ elapsed = None
    /\ am_pc = [t \in Threads |-> "idle"]
    /\ n_calls = 0
    /\ appended = <<>>


\* ---------------------------------------------- main thread: start-up

Registered == {agents[i] : i \in 1..Len(agents)}

\* What the state of the room is when a console command starts.
Snapshot(op) ==
    [op |-> op, present |-> agents_present, alone |-> agents_alone,
     flags |-> is_present, hist |-> recent_messages, queue |-> voice_queue]

BackendCall(op, agent, message) ==
    [op |-> op, agent |-> agent, message |-> message]

\* initialize_agents: agent = RoomAgent(name, self.client, self.room_state)
IaNew ==
    /\ pc = "ia_new"
    /\ LET name == Names[Len(agents) + 1]
       IN  /\ is_present' = (name :> TRUE) @@ is_present
           /\ agent_id' = (name :> 0) @@ agent_id
           /\ other_agents' = (name :> <<>>) @@ other_agents
    /\ pc' = "ia_create"
    /\ UNCHANGED <<roomVars, agents, running, voiceVars, room_context, cmd,
                   present, responses, utc_val, result, calls, pre, msg_cmds,
                   hbVars, workerVars, amVars, deliverVars, refreshVars, clockVars>>

\* initialize_agents: agent.create(), the backend answering.
IaCreate ==
    /\ pc = "ia_create"
    /\ LET name == Names[Len(agents) + 1]
       IN  /\ agent_id' = [agent_id EXCEPT ![name] = Len(agents) + 1]
           /\ room_context' = (name :> "room") @@ room_context
           /\ agents_present' = agents_present \cup {name}
    /\ pc' = "ia_reg"
    /\ UNCHANGED <<agents_alone, recent_messages, is_present, other_agents,
                   agents, running, voiceVars, cmd, present, responses,
                   utc_val, result, calls, pre, msg_cmds, hbVars, workerVars,
                   amVars, deliverVars, refreshVars, clockVars>>

\* initialize_agents: self.agents[name] = agent, and the next name.
IaReg ==
    /\ pc = "ia_reg"
    /\ agents' = Append(agents, Names[Len(agents) + 1])
    /\ pc' = IF Len(agents') = Len(Names) THEN "ia_others" ELSE "ia_new"
    /\ UNCHANGED <<roomVars, agentVars, running, voiceVars, room_context, cmd,
                   present, responses, utc_val, result, calls, pre, msg_cmds,
                   hbVars, workerVars, amVars, deliverVars, refreshVars, clockVars>>

\* initialize_agents: every agent is given the ids of the others.
IaOthers_with_self ==
    /\ pc = "ia_others"
    /\ other_agents' = [a \in Registered |->
                           [b \in Registered |-> agent_id[b]]]
    /\ pc' = "start"
    /\ UNCHANGED <<roomVars, is_present, agent_id, agents, running, voiceVars,
                   room_context, cmd, present, responses, utc_val, result,
                   calls, pre, msg_cmds, hbVars, workerVars, amVars,
                   deliverVars, refreshVars, clockVars>>

IaOthers ==
    /\ pc = "ia_others"
    /\ other_agents' = [a \in Registered |->
                           [b \in Registered \ {a} |-> agent_id[b]]]
    /\ pc' = "start"
    /\ UNCHANGED <<roomVars, is_present, agent_id, agents, running, voiceVars,
                   room_context, cmd, present, responses, utc_val, result,
                   calls, pre, msg_cmds, hbVars, workerVars, amVars, deliverVars, refreshVars, clockVars>>

\* start_heartbeat, with the voice.start() it ends with.
StartHeartbeat ==
    /\ pc = "start"
    /\ running' = TRUE
    /\ hb_pc' = "check"
    /\ voice_running' = enabled
    /\ vw_pc' = IF enabled THEN "loop" ELSE vw_pc
    /\ pc' = "idle"
    /\ UNCHANGED <<roomVars, agentVars, agents, enabled, voice_queue,
                   room_context, cmd, present, responses, utc_val, result,
                   calls, pre, msg_cmds, hb_i, hb_val, hb_seen, vw_req, vw_tmp,
                   tmp_files, n_tmp, consumed, played, said, amVars, deliverVars, refreshVars, clockVars>>


\* ------------------------------------- main thread: leave and return

\* Variables no console command touches.
offConsole == <<enabled, voice_running, agent_id, other_agents, agents,
                hbVars, workerVars, amVars, deliverVars, refreshVars, clockVars>>

\* main: "leave <agent>".
CmdLeave(a) ==
    /\ pc = "idle"
    /\ cmd' = [op |-> "leave", agent |-> a]
    /\ pre' = Snapshot("leave")
    /\ IF a \in Registered
       THEN pc' = "lv_check" /\ result' = result
       ELSE pc' = "ret" /\ result' = "Unknown agent: " \o a
    /\ UNCHANGED <<roomVars, is_present, running, voice_queue, room_context,
                   present, responses, utc_val, calls, msg_cmds, offConsole>>

\* leave_room: the test of is_present, and is_present = False.
LeaveCheck_no_test ==
    /\ pc = "lv_check"
    /\ is_present' = [is_present EXCEPT ![cmd.agent] = FALSE]
    /\ pc' = "lv_discard"
    /\ result' = result
    /\ UNCHANGED <<roomVars, running, voice_queue, room_context, cmd, present,
                   responses, utc_val, calls, pre, msg_cmds, offConsole>>

LeaveCheck ==
    /\ pc = "lv_check"
    /\ IF is_present[cmd.agent]
       THEN /\ is_present' = [is_present EXCEPT ![cmd.agent] = FALSE]
            /\ pc' = "lv_discard"
            /\ result' = result
       ELSE /\ is_present' = is_present
            /\ pc' = "ret"
            /\ result' = cmd.agent \o " is already alone."
    /\ UNCHANGED <<roomVars, running, voice_queue, room_context, cmd, present,
                   responses, utc_val, calls, pre, msg_cmds, offConsole>>

\* leave_room: self.room_state.agents_present.discard(self.name)
LeaveDiscard_clears ==
    /\ pc = "lv_discard"
    /\ agents_present' = {}
    /\ pc' = "lv_add"
    /\ UNCHANGED <<agents_alone, recent_messages, is_present, running,
                   voice_queue, room_context, cmd, present, responses, utc_val,
                   result, calls, pre, msg_cmds, offConsole>>

LeaveDiscard ==
    /\ pc = "lv_discard"
    /\ agents_present' = agents_present \ {cmd.agent}
    /\ pc' = "lv_add"
    /\ UNCHANGED <<agents_alone, recent_messages, is_present, running,
                   voice_queue, room_context, cmd, present, responses, utc_val,
                   result, calls, pre, msg_cmds, offConsole>>

\* leave_room: self.room_state.agents_alone.add(self.name)
LeaveAdd ==
    /\ pc = "lv_add"
    /\ agents_alone' = agents_alone \cup {cmd.agent}
    /\ pc' = "utc"
    /\ UNCHANGED <<agents_present, recent_messages, is_present, running,
                   voice_queue, room_context, cmd, present, responses, utc_val,
                   result, calls, pre, msg_cmds, offConsole>>

\* main: "return <agent>".
CmdReturn(a) ==
    /\ pc = "idle"
    /\ cmd' = [op |-> "return", agent |-> a]
    /\ pre' = Snapshot("return")
    /\ IF a \in Registered
       THEN pc' = "rt_check" /\ result' = result
       ELSE pc' = "ret" /\ result' = "Unknown agent: " \o a
    /\ UNCHANGED <<roomVars, is_present, running, voice_queue, room_context,
                   present, responses, utc_val, calls, msg_cmds, offConsole>>

\* return_to_room: the test of is_present, and is_present = True.
ReturnCheck ==
    /\ pc = "rt_check"
    /\ IF ~is_present[cmd.agent]
       THEN /\ is_present' = [is_present EXCEPT ![cmd.agent] = TRUE]
            /\ pc' = "rt_discard"
            /\ result' = result
       ELSE /\ is_present' = is_present
            /\ pc' = "ret"
            /\ result' = cmd.agent \o " is already present."
    /\ UNCHANGED <<roomVars, running, voice_queue, room_context, cmd, present,
                   responses, utc_val, calls, pre, msg_cmds, offConsole>>

\* return_to_room: self.room_state.agents_alone.discard(self.name)
ReturnDiscard ==
    /\ pc = "rt_discard"
    /\ agents_alone' = agents_alone \ {cmd.agent}
    /\ pc' = "rt_add"
    /\ UNCHANGED <<agents_present, recent_messages, is_present, running,
                   voice_queue, room_context, cmd, present, responses, utc_val,
                   result, calls, pre, msg_cmds, offConsole>>

\* return_to_room: self.room_state.agents_present.add(self.name)
ReturnAdd ==
    /\ pc = "rt_add"
    /\ agents_present' = agents_present \cup {cmd.agent}
    /\ pc' = "utc"
    /\ UNCHANGED <<agents_alone, recent_messages, is_present, running,
                   voice_queue, room_context, cmd, present, responses, utc_val,
                   result, calls, pre, msg_cmds, offConsole>>

\* What leave_room / return_to_room return after a transition.
TransitionResult ==
    IF cmd.op = "leave" THEN cmd.agent \o " withdraws into solitude."
    ELSE cmd.agent \o " returns to the room."

\* update_time_context called by leave_room / return_to_room: nothing without
\* an agent_id; otherwise the value is computed and the backend is called.
ConsoleUtc ==
    /\ pc = "utc"
    /\ IF agent_id[cmd.agent] = 0
       THEN /\ pc' = "ret"
            /\ result' = TransitionResult
            /\ UNCHANGED <<utc_val, calls>>
       ELSE /\ utc_val' = ContextValue(is_present[cmd.agent])
            /\ calls' = Append(calls, BackendCall("update_agent_memory",
                                                  cmd.agent, utc_val'))
            /\ pc' = "utc_call"
            /\ result' = result
    /\ UNCHANGED <<roomVars, is_present, running, voice_queue, room_context,
                   cmd, present, responses, pre, msg_cmds, offConsole>>

\* The backend has written the block and update_agent_memory returns.
ConsoleUtcDone ==
    /\ pc = "utc_call"
    /\ room_context' = [room_context EXCEPT ![cmd.agent] = utc_val]
    /\ pc' = "ret"
    /\ result' = TransitionResult
    /\ UNCHANGED <<roomVars, is_present, running, voice_queue, cmd, present,
                   responses, utc_val, calls, pre, msg_cmds, offConsole>>


\* --------------------------------------- main thread: broadcast and send

Unheard == "The room is empty. Your words echo unheard."

\* main: "broadcast <message>".
CmdBroadcast(m) ==
    /\ pc = "idle"
    /\ agents_present = {} \/ msg_cmds < MaxMsgCmds
    /\ cmd' = [op |-> "broadcast", message |-> m]
    /\ pre' = Snapshot("broadcast")
    /\ pc' = "bc_get"
    /\ UNCHANGED <<roomVars, is_present, running, voice_queue, room_context,
                   present, responses, utc_val, result, calls, msg_cmds,
                   offConsole>>

\* broadcast: present = get_present_agents(), the empty room, and the
\* announcement said aloud.
BroadcastGet_no_empty_test ==
    /\ pc = "bc_get"
    /\ \E order \in Orders(agents_present) :
          /\ present' = order
          /\ pc' = IF order = <<>> THEN "ret" ELSE "bc_send"
          /\ result' = IF order = <<>> THEN <<>> ELSE result
          /\ msg_cmds' = msg_cmds + 1
          /\ voice_queue' = say(voice_queue, enabled, "Loudspeaker",
                                cmd.message)
    /\ UNCHANGED <<roomVars, is_present, running, room_context, cmd,
                   responses, utc_val, calls, pre, offConsole>>

BroadcastGet_all_agents ==
    /\ pc = "bc_get"
    /\ \E order \in Orders(Registered) :
          /\ present' = order
          /\ IF agents_present = {}
             THEN /\ pc' = "ret"
                  /\ result' = Unheard
                  /\ UNCHANGED <<msg_cmds, voice_queue>>
             ELSE /\ pc' = "bc_send"
                  /\ result' = result
                  /\ msg_cmds' = msg_cmds + 1
                  /\ voice_queue' = say(voice_queue, enabled, "Loudspeaker",
                                        cmd.message)
    /\ UNCHANGED <<roomVars, is_present, running, room_context, cmd,
                   responses, utc_val, calls, pre, offConsole>>

BroadcastGet ==
    /\ pc = "bc_get"
    /\ \E order \in Orders(agents_present) :
          /\ present' = order
          /\ IF order = <<>>
             THEN /\ pc' = "ret"
                  /\ result' = Unheard
                  /\ UNCHANGED <<msg_cmds, voice_queue>>
             ELSE /\ pc' = "bc_send"
                  /\ result' = result
                  /\ msg_cmds' = msg_cmds + 1
                  /\ voice_queue' = say(voice_queue, enabled, "Loudspeaker",
                                        cmd.message)
    /\ UNCHANGED <<roomVars, is_present, running, room_context, cmd,
                   responses, utc_val, calls, pre, offConsole>>

\* The agent the broadcast loop is at.
BroadcastName == present[Len(responses) + 1]

\* broadcast, the rest of one turn of its loop once send_message has returned
\* response: the reply is kept and said aloud and the announcement recorded.
BroadcastRecord(response) ==
    /\ responses' = Append(responses, BroadcastName \o ": " \o response)
    /\ voice_queue' = say(voice_queue, enabled, BroadcastName, response)
    /\ recent_messages' =
           add_message(recent_messages, "Loudspeaker", cmd.message, None)
    /\ IF Len(responses') = Len(present)
       THEN pc' = "ret" /\ result' = responses'
       ELSE pc' = "bc_send" /\ result' = result

\* broadcast: agent.send_message(...) is called; the backend is called when
\* the agent has an id.
BroadcastSend ==
    /\ pc = "bc_send"
    /\ IF agent_id[BroadcastName] = 0
       THEN /\ BroadcastRecord("Agent not initialized")
            /\ calls' = calls
       ELSE /\ calls' = Append(calls,
                   BackendCall("send_message", BroadcastName,
                               "[Loudspeaker]: " \o cmd.message))
            /\ pc' = "bc_reply"
            /\ UNCHANGED <<responses, voice_queue, recent_messages, result>>
    /\ UNCHANGED <<agents_present, agents_alone, is_present, running,
                   room_context, cmd, present, utc_val, pre, msg_cmds,
                   offConsole>>

\* broadcast: the backend answers.
BroadcastReply ==
    /\ pc = "bc_reply"
    /\ \E resp \in Responses : BroadcastRecord(ExtractReply(resp))
    /\ UNCHANGED <<agents_present, agents_alone, is_present, running,
                   room_context, cmd, present, utc_val, calls, pre, msg_cmds,
                   offConsole>>

\* main: "send <from> <to> <message>".
CmdSend(s, r, m) ==
    /\ pc = "idle"
    /\ s \notin Registered \/ r \notin Registered \/ msg_cmds < MaxMsgCmds
    /\ cmd' = [op |-> "send", sender |-> s, recipient |-> r, message |-> m]
    /\ pre' = Snapshot("send")
    /\ pc' = "dm_check"
    /\ UNCHANGED <<roomVars, is_present, running, voice_queue, room_context,
                   present, responses, utc_val, result, calls, msg_cmds,
                   offConsole>>

\* send_direct_message: the two names are looked up, and the sender's message
\* is said aloud.
SendCheck_no_recipient_test ==
    /\ pc = "dm_check"
    /\ IF cmd.sender \notin Registered
       THEN /\ pc' = "ret"
            /\ result' = "Unknown sender: " \o cmd.sender
            /\ UNCHANGED <<msg_cmds, voice_queue>>
       ELSE /\ pc' = IF cmd.recipient \in Registered THEN "dm_send" ELSE "ret"
            /\ result' = IF cmd.recipient \in Registered THEN result
                         ELSE "Unknown recipient: " \o cmd.recipient
            /\ msg_cmds' = msg_cmds + 1
            /\ voice_queue' = say(voice_queue, enabled, cmd.sender,
                                  cmd.message)
    /\ UNCHANGED <<roomVars, is_present, running, room_context, cmd, present,
                   responses, utc_val, calls, pre, offConsole>>

SendCheck ==
    /\ pc = "dm_check"
    /\ IF cmd.sender \notin Registered
       THEN /\ pc' = "ret"
            /\ result' = "Unknown sender: " \o cmd.sender
            /\ UNCHANGED <<msg_cmds, voice_queue>>
       ELSE IF cmd.recipient \notin Registered
       THEN /\ pc' = "ret"
            /\ result' = "Unknown recipient: " \o cmd.recipient
            /\ UNCHANGED <<msg_cmds, voice_queue>>
       ELSE /\ pc' = "dm_send"
            /\ result' = result
            /\ msg_cmds' = msg_cmds + 1
            /\ voice_queue' = say(voice_queue, enabled, cmd.sender,
                                  cmd.message)
    /\ UNCHANGED <<roomVars, is_present, running, room_context, cmd, present,
                   responses, utc_val, calls, pre, offConsole>>

\* send_direct_message, after send_message has returned response: the reply is
\* said aloud and the message recorded.
SendRecord(response) ==
    /\ voice_queue' = say(voice_queue, enabled, cmd.recipient, response)
    /\ recent_messages' = add_message(recent_messages, cmd.sender,
                                      cmd.message, cmd.recipient)
    /\ pc' = "ret"
    /\ result' = cmd.recipient \o ": " \o response

\* send_direct_message: recipient.send_message(...) is called, whatever the
\* presence of the recipient.
SendSend_present_only ==
    /\ pc = "dm_send"
    /\ IF agent_id[cmd.recipient] = 0 \/ cmd.recipient \notin agents_present
       THEN /\ SendRecord("Agent not initialized")
            /\ calls' = calls
       ELSE /\ calls' = Append(calls,
                   BackendCall("send_message", cmd.recipient,
                               cmd.sender \o " says: " \o cmd.message))
            /\ pc' = "dm_reply"
            /\ UNCHANGED <<voice_queue, recent_messages, result>>
    /\ UNCHANGED <<agents_present, agents_alone, is_present, running,
                   room_context, cmd, present, responses, utc_val, pre,
                   msg_cmds, offConsole>>

SendSend ==
    /\ pc = "dm_send"
    /\ IF agent_id[cmd.recipient] = 0
       THEN /\ SendRecord("Agent not initialized")
            /\ calls' = calls
       ELSE /\ calls' = Append(calls,
                   BackendCall("send_message", cmd.recipient,
                               cmd.sender \o " says: " \o cmd.message))
            /\ pc' = "dm_reply"
            /\ UNCHANGED <<voice_queue, recent_messages, result>>
    /\ UNCHANGED <<agents_present, agents_alone, is_present, running,
                   room_context, cmd, present, responses, utc_val, pre,
                   msg_cmds, offConsole>>

\* send_direct_message: the backend answers.
SendReply ==
    /\ pc = "dm_reply"
    /\ \E resp \in Responses : SendRecord(ExtractReply(resp))
    /\ UNCHANGED <<agents_present, agents_alone, is_present, running,
                   room_context, cmd, present, responses, utc_val, calls, pre,
                   msg_cmds, offConsole>>


\* ------------------------- main thread: status, history, quit, the loop

\* The last n entries of the sequence h (h[-n:]).
LastN(h, n) == IF Len(h) <= n THEN h ELSE SubSeq(h, Len(h) - n + 1, Len(h))

\* main: "status" (get_status reads the room and renders it).
CmdStatus ==
    /\ pc = "idle"
    /\ cmd' = [op |-> "status"]
    /\ pre' = Snapshot("status")
    /\ result' = [present |-> agents_present, alone |-> agents_alone,
                  recent |-> LastN(recent_messages, 5)]
    /\ pc' = "ret"
    /\ UNCHANGED <<roomVars, is_present, running, voice_queue, room_context,
                   present, responses, utc_val, calls, msg_cmds, offConsole>>

\* main: "history" (the last 20 messages are printed).
CmdHistory ==
    /\ pc = "idle"
    /\ cmd' = [op |-> "history"]
    /\ pre' = Snapshot("history")
    /\ result' = LastN(recent_messages, 20)
    /\ pc' = "ret"
    /\ UNCHANGED <<roomVars, is_present, running, voice_queue, room_context,
                   present, responses, utc_val, calls, msg_cmds, offConsole>>

\* main: the result is printed and the loop reads the next command.
Return ==
    /\ pc = "ret"
    /\ pc' = "idle"
    /\ cmd' = NoCmd
    /\ pre' = NoPre
    /\ present' = <<>>
    /\ responses' = <<>>
    /\ utc_val' = None
    /\ result' = None
    /\ calls' = <<>>
    /\ UNCHANGED <<roomVars, is_present, running, voice_queue, room_context,
                   msg_cmds, offConsole>>

\* main: "quit" leaves the loop; the finally clause calls shutdown.
CmdQuit ==
    /\ pc = "idle"
    /\ cmd' = [op |-> "quit"]
    /\ pc' = "sd_flag"
    /\ UNCHANGED <<roomVars, is_present, running, voice_queue, room_context,
                   present, responses, utc_val, result, calls, pre, msg_cmds,
                   offConsole>>

\* A backend call of the main thread raises: nothing in main catches it, the
\* finally clause calls shutdown and the program ends.
BackendFail ==
    /\ pc \in {"ia_create", "utc_call", "bc_reply", "dm_reply"}
    /\ pc' = "sd_flag"
    /\ result' = "EXCEPTION"
    /\ UNCHANGED <<roomVars, is_present, running, voice_queue, room_context,
                   cmd, present, responses, utc_val, calls, pre, msg_cmds,
                   offConsole>>

\* shutdown: self.running = False
ShutdownFlag ==
    /\ pc = "sd_flag"
    /\ running' = FALSE
    /\ pc' = "sd_join"
    /\ UNCHANGED <<roomVars, is_present, voice_queue, room_context, cmd,
                   present, responses, utc_val, result, calls, pre, msg_cmds,
                   offConsole>>

\* shutdown: heartbeat_thread.join(timeout=2) returns, the thread ended or not.
ShutdownJoin ==
    /\ pc = "sd_join"
    /\ pc' = "sd_voice"
    /\ UNCHANGED <<roomVars, is_present, running, voice_queue, room_context,
                   cmd, present, responses, utc_val, result, calls, pre,
                   msg_cmds, offConsole>>

\* shutdown: self.voice.stop() sets running = False
VoiceStopFlag ==
    /\ pc = "sd_voice"
    /\ voice_running' = FALSE
    /\ pc' = "sd_vjoin"
    /\ UNCHANGED <<roomVars, agentVars, agents, running, enabled, voice_queue,
                   room_context, cmd, present, responses, utc_val, result,
                   calls, pre, msg_cmds, hbVars, workerVars, amVars, deliverVars, refreshVars, clockVars>>

\* stop: voice_thread.join(timeout=2) returns, the thread ended or not, and
\* the program ends.
VoiceStopJoin ==
    /\ pc = "sd_vjoin"
    /\ pc' = "exited"
    /\ UNCHANGED <<roomVars, is_present, running, voice_queue, room_context,
                   cmd, present, responses, utc_val, result, calls, pre,
                   msg_cmds, offConsole>>

\* The steps of the main thread.
StartUp == IaNew \/ IaCreate \/ IaReg \/ IaOthers \/ StartHeartbeat

Presence ==
    \/ \E a \in NameInputs : CmdLeave(a)
    \/ LeaveCheck \/ LeaveDiscard \/ LeaveAdd
    \/ \E a \in NameInputs : CmdReturn(a)
    \/ ReturnCheck \/ ReturnDiscard \/ ReturnAdd
    \/ ConsoleUtc \/ ConsoleUtcDone

Messaging ==
    \/ \E m \in Msgs : CmdBroadcast(m)
    \/ BroadcastGet \/ BroadcastSend \/ BroadcastReply
    \/ \E s, r \in NameInputs, m \in Msgs : CmdSend(s, r, m)
    \/ SendCheck \/ SendSend \/ SendReply

Shutdown == ShutdownFlag \/ ShutdownJoin \/ VoiceStopFlag \/ VoiceStopJoin

Console ==
    \/ StartUp \/ Presence \/ Messaging
    \/ CmdStatus \/ CmdHistory \/ Return \/ CmdQuit \/ BackendFail
    \/ Shutdown

\* The main thread alone: start-up, the console commands, shutdown.
SpecConsole == Init /\ [][Console]_vars


\* --------------------------------------------------- the heartbeat thread

\* Variables the heartbeat thread never writes.
offHeartbeat == <<roomVars, agentVars, agents, running, voiceVars, mainVars,
                  workerVars, amVars, deliverVars, refreshVars, clockVars>>

\* heartbeat_loop: while self.running
HeartbeatCheck_no_flag_test ==
    /\ hb_pc = "check"
    /\ hb_pc' = "sleep"
    /\ UNCHANGED <<hb_i, hb_val, hb_seen, room_context, offHeartbeat>>

HeartbeatCheck ==
    /\ hb_pc = "check"
    /\ hb_pc' = IF running THEN "sleep" ELSE "done"
    /\ UNCHANGED <<hb_i, hb_val, hb_seen, room_context, offHeartbeat>>

\* heartbeat_loop: time.sleep(HEARTBEAT_INTERVAL) returns and the loop over
\* self.agents.values() starts, whatever self.running is by now.
HeartbeatWake ==
    /\ hb_pc = "sleep"
    /\ hb_pc' = "utc"
    /\ hb_i' = 1
    /\ UNCHANGED <<hb_val, hb_seen, room_context, offHeartbeat>>

\* The agent the heartbeat loop is at, and the step to the one after it.
HeartbeatAgent == agents[hb_i]

HeartbeatNext ==
    /\ hb_i' = IF hb_i < Len(agents) THEN hb_i + 1 ELSE 0
    /\ hb_pc' = IF hb_i < Len(agents) THEN "utc" ELSE "check"
    /\ hb_val' = None
    /\ hb_seen' = 0

\* update_time_context called by the heartbeat: nothing without an agent_id;
\* otherwise is_present is read for the location and the iteration over
\* agents_present starts (the iterator keeps the size of the set).
HeartbeatUtc ==
    /\ hb_pc = "utc"
    /\ IF agent_id[HeartbeatAgent] = 0
       THEN HeartbeatNext
       ELSE /\ hb_val' = ContextValue(is_present[HeartbeatAgent])
            /\ hb_seen' = Cardinality(agents_present)
            /\ hb_pc' = "iter"
            /\ hb_i' = hb_i
    /\ UNCHANGED <<room_context, offHeartbeat>>

\* update_time_context: the iteration over agents_present ends, with a
\* RuntimeError that ends the thread when the set changed size under it;
\* otherwise the backend is called.
HeartbeatIterEnd ==
    /\ hb_pc = "iter"
    /\ hb_pc' = IF Cardinality(agents_present) = hb_seen
                THEN "call" ELSE "dead"
    /\ UNCHANGED <<hb_i, hb_val, hb_seen, room_context, offHeartbeat>>

\* The backend has written the block and update_agent_memory returns.
HeartbeatCallDone ==
    /\ hb_pc = "call"
    /\ room_context' = [room_context EXCEPT ![HeartbeatAgent] = hb_val]
    /\ HeartbeatNext
    /\ UNCHANGED offHeartbeat

\* update_agent_memory raises: nothing in heartbeat_loop catches it and the
\* thread ends.
HeartbeatCallFail ==
    /\ hb_pc = "call"
    /\ hb_pc' = "dead"
    /\ UNCHANGED <<hb_i, hb_val, hb_seen, room_context, offHeartbeat>>

Heartbeat ==
    \/ HeartbeatCheck \/ HeartbeatWake \/ HeartbeatUtc \/ HeartbeatIterEnd
    \/ HeartbeatCallDone \/ HeartbeatCallFail

\* The main thread and the heartbeat thread, the console taking the commands
\* that exchange no message.
ThreadsNext ==
    \/ StartUp \/ Presence
    \/ CmdStatus \/ CmdHistory \/ Return \/ CmdQuit \/ BackendFail
    \/ Shutdown
    \/ Heartbeat

SpecThreads == Init /\ [][ThreadsNext]_vars

\* The names typed at the console when every kind of command is taken while
\* the heartbeat thread runs: the agent that leaves and returns, and the
\* agents that direct messages are sent from and to.
Movers == {"Alice"}
FewNames == {"Alice", "Bob"}

\* The console taking every kind of command, on a few names, and the
\* heartbeat thread.
PresenceOfFew ==
    \/ \E a \in Movers : CmdLeave(a)
    \/ LeaveCheck \/ LeaveDiscard \/ LeaveAdd
    \/ \E a \in Movers : CmdReturn(a)
    \/ ReturnCheck \/ ReturnDiscard \/ ReturnAdd
    \/ ConsoleUtc \/ ConsoleUtcDone

MessagingOfFew ==
    \/ \E m \in Msgs : CmdBroadcast(m)
    \/ BroadcastGet \/ BroadcastSend \/ BroadcastReply
    \/ \E s, r \in FewNames, m \in Msgs : CmdSend(s, r, m)
    \/ SendCheck \/ SendSend \/ SendReply

RoomNext ==
    \/ StartUp \/ PresenceOfFew \/ MessagingOfFew \/ CmdStatus \/ Return
    \/ Heartbeat

SpecRoom == Init /\ [][RoomNext]_vars

\* ------------------------------- add_message, statement by statement

\* Variables the threads that call add_message directly never write.
offRecord == <<agents_present, agents_alone, agentVars, agents, running,
               voiceVars, room_context, mainVars, hbVars, workerVars,
               deliverVars, refreshVars, clockVars>>

\* add_message is called and builds its entry.
RecordCall(t) ==
    /\ am_pc[t] = "idle"
    /\ n_calls < MaxCalls
    /\ n_calls' = n_calls + 1
    /\ am_pc' = [am_pc EXCEPT ![t] = "append"]
    /\ UNCHANGED <<recent_messages, appended, offRecord>>

\* The entry an append adds: entries are told apart by a serial number in their
\* content, given in the order they are appended.
NextEntry == Entry("Loudspeaker", Len(appended) + 1, None)

\* add_message: self.recent_messages.append(msg)
RecordAppend(t) ==
    /\ am_pc[t] = "append"
    /\ recent_messages' = Append(recent_messages, NextEntry)
    /\ appended' = Append(appended, NextEntry)
    /\ am_pc' = [am_pc EXCEPT ![t] = "test"]
    /\ UNCHANGED <<n_calls, offRecord>>

\* add_message: if len(self.recent_messages) > 50
RecordTest(t) ==
    /\ am_pc[t] = "test"
    /\ am_pc' = [am_pc EXCEPT ![t] =
                    IF Len(recent_messages) > HistoryCap THEN "pop" ELSE "idle"]
    /\ UNCHANGED <<recent_messages, n_calls, appended, offRecord>>

\* add_message: self.recent_messages.pop(0)
RecordPop_newest(t) ==
    /\ am_pc[t] = "pop"
    /\ recent_messages' = SubSeq(recent_messages, 1, Len(recent_messages) - 1)
    /\ am_pc' = [am_pc EXCEPT ![t] = "idle"]
    /\ UNCHANGED <<n_calls, appended, offRecord>>

RecordPop(t) ==
    /\ am_pc[t] = "pop"
    /\ recent_messages' = Tail(recent_messages)
    /\ am_pc' = [am_pc EXCEPT ![t] = "idle"]
    /\ UNCHANGED <<n_calls, appended, offRecord>>

Record(t) ==
    RecordCall(t) \/ RecordAppend(t) \/ RecordTest(t) \/ RecordPop(t)

RecordNext == \E t \in Threads : Record(t)

\* Threads calling add_message on the history of a new room at the same time.
SpecHistory == Init /\ [][RecordNext]_vars

\* One thread calling add_message on the history of a new room, one call after
\* another.
RecordSequence == Record("t1")

SpecSequence == Init /\ [][RecordSequence]_vars

\* --------------------------------------- send_message called directly

\* Variables a direct call of send_message does not touch.
offDeliver == <<roomVars, agentVars, agents, running, voiceVars, room_context,
                mainVars, hbVars, workerVars, amVars, refreshVars, clockVars>>

\* The responses of at most MaxTurns turns.
ResponsesUpTo(n) == UNION {[1..k -> Turns] : k \in 0..n}

\* send_message on a created proxy: self.client.send_message(...) returns.
SendMessageCall(resp) ==
    /\ pc = "idle"
    /\ sm_pc = "idle"
    /\ sm_response' = resp
    /\ sm_pc' = "extract"
    /\ UNCHANGED <<sm_reply, offDeliver>>

\* send_message: the loop over response.messages and the return.
SendMessageReturn ==
    /\ sm_pc = "extract"
    /\ sm_reply' = ExtractReply(sm_response)
    /\ sm_pc' = "returned"
    /\ UNCHANGED <<sm_response, offDeliver>>

\* The caller goes on to its next call.
SendMessageNext ==
    /\ sm_pc = "returned"
    /\ sm_pc' = "idle"
    /\ sm_response' = <<>>
    /\ sm_reply' = None
    /\ UNCHANGED offDeliver

DeliverNext ==
    \/ StartUp
    \/ \E resp \in ResponsesUpTo(MaxTurns) : SendMessageCall(resp)
    \/ SendMessageReturn
    \/ SendMessageNext

\* A room started up, and send_message called on a proxy with every sm_response.
SpecDeliver == Init /\ [][DeliverNext]_vars

\* ------------------------------- update_time_context called directly

\* Variables a direct call of update_time_context does not touch.
offRefresh == <<roomVars, agentVars, agents, running, voiceVars, mainVars,
                hbVars, workerVars, amVars, deliverVars, clockVars>>

\* update_time_context is called on the proxy of a, constructed by now.
RefreshCall(a) ==
    /\ rf_pc = "idle"
    /\ rf_n < MaxRefresh
    /\ a \in DOMAIN agent_id
    /\ rf_agent' = a
    /\ rf_n' = rf_n + 1
    /\ rf_pc' = "test"
    /\ UNCHANGED <<rf_val, rf_skipped, rf_backend, room_context, offRefresh>>

\* update_time_context: if not self.agent_id: return; otherwise the value is
\* computed and the backend is called.
RefreshTest_no_test ==
    /\ rf_pc = "test"
    /\ rf_val' = ContextValue(is_present[rf_agent])
    /\ rf_pc' = "call"
    /\ UNCHANGED <<rf_agent, rf_n, rf_skipped, rf_backend, room_context,
                   offRefresh>>

RefreshTest ==
    /\ rf_pc = "test"
    /\ IF agent_id[rf_agent] = 0
       THEN /\ rf_pc' = "idle"
            /\ rf_agent' = None
            /\ rf_skipped' = rf_skipped + 1
            /\ rf_val' = rf_val
       ELSE /\ rf_val' = ContextValue(is_present[rf_agent])
            /\ rf_pc' = "call"
            /\ UNCHANGED <<rf_agent, rf_skipped>>
    /\ UNCHANGED <<rf_n, rf_backend, room_context, offRefresh>>

\* The backend has written the block and update_agent_memory returns.
RefreshDone ==
    /\ rf_pc = "call"
    /\ room_context' = (rf_agent :> rf_val) @@ room_context
    /\ rf_backend' = rf_backend + 1
    /\ rf_pc' = "idle"
    /\ rf_agent' = None
    /\ rf_val' = None
    /\ UNCHANGED <<rf_n, rf_skipped, offRefresh>>

Refresh ==
    \/ \E a \in NameSet : RefreshCall(a)
    \/ RefreshTest \/ RefreshDone

\* Start-up and the presence commands of the console, with
\* update_time_context called on any constructed proxy at any moment.
RefreshNext == StartUp \/ Presence \/ Return \/ Refresh

SpecRefresh == Init /\ [][RefreshNext]_vars

\* ------------------------------------------------ the room's clock

\* Variables the clock and time_elapsed do not touch.
offClock == <<roomVars, agentVars, agents, running, voiceVars, room_context,
              mainVars, hbVars, workerVars, amVars, deliverVars, refreshVars>>

\* Time passes.
ClockAdvance(k) ==
    /\ n_ticks < MaxTicks
    /\ now' = now + k
    /\ n_ticks' = n_ticks + 1
    /\ elapsed' = None
    /\ UNCHANGED <<start_time, offClock>>

\* time_elapsed is called: delta = datetime.now() - self.start_time, rendered.
TimeElapsed ==
    /\ elapsed = None
    /\ elapsed' = time_elapsed(Timedelta(now - start_time))
    /\ UNCHANGED <<start_time, now, n_ticks, offClock>>

ClockNext ==
    \/ \E k \in ClockSteps : ClockAdvance(k)
    \/ TimeElapsed

\* A room whose clock runs and whose time_elapsed is called.
SpecClock == Init /\ [][ClockNext]_vars

\* ------------------------------------------------- the voice channel

\* Variables the voice channel does not touch.
offVoice == <<roomVars, agentVars, agents, running, room_context, mainVars,
              hbVars, amVars, deliverVars, refreshVars, clockVars>>

\* VoiceSynthesizer.start: nothing when voice is not enabled, else running is
\* set and the worker thread started.
VoiceStart ==
    /\ vw_pc = "off"
    /\ enabled
    /\ voice_running' = TRUE
    /\ vw_pc' = "loop"
    /\ UNCHANGED <<enabled, voice_queue, vw_req, vw_tmp, tmp_files, n_tmp,
                   consumed, played, said, offVoice>>

\* The voice channel has been started and not stopped.
VoiceOpen == enabled => voice_running

\* VoiceSynthesizer.say called by the room with a speaker and a text.
VoiceSay(speaker, text) ==
    /\ VoiceOpen
    /\ Len(said) < MaxSays
    /\ said' = Append(said, <<speaker, text>>)
    /\ voice_queue' = say(voice_queue, enabled, speaker, text)
    /\ UNCHANGED <<enabled, voice_running, vw_pc, vw_req, vw_tmp, tmp_files,
                   n_tmp, consumed, played, offVoice>>

\* VoiceSynthesizer.stop: self.running = False (the join that follows gives
\* up after two seconds).
VoiceStop ==
    /\ enabled
    /\ voice_running
    /\ voice_running' = FALSE
    /\ UNCHANGED <<enabled, voice_queue, workerVars, offVoice>>

\* Variables a step of the worker that only moves on leaves alone.
workerKeeps == <<voiceVars, vw_req, vw_tmp, tmp_files, n_tmp, consumed, played,
                 said, offVoice>>

\* _voice_worker: while self.running
WorkerLoop ==
    /\ vw_pc = "loop"
    /\ vw_pc' = IF voice_running THEN "empty" ELSE "done"
    /\ UNCHANGED workerKeeps

\* _voice_worker: if not self.voice_queue.empty()
WorkerEmpty ==
    /\ vw_pc = "empty"
    /\ vw_pc' = IF voice_queue # <<>> THEN "get" ELSE "sleep"
    /\ UNCHANGED workerKeeps

\* _voice_worker: time.sleep(0.1)
WorkerSleep ==
    /\ vw_pc = "sleep"
    /\ vw_pc' = "loop"
    /\ UNCHANGED workerKeeps

\* _voice_worker: speaker, text = self.voice_queue.get(timeout=0.1); the
\* worker is the only consumer, so the queue found non-empty still is.
WorkerGet ==
    /\ vw_pc = "get"
    /\ vw_req' = Head(voice_queue)
    /\ voice_queue' = Tail(voice_queue)
    /\ consumed' = Append(consumed, Head(voice_queue))
    /\ vw_pc' = "tmp"
    /\ UNCHANGED <<enabled, voice_running, vw_tmp, tmp_files, n_tmp, played,
                   said, offVoice>>

\* _speak: with tempfile.NamedTemporaryFile(suffix=".mp3", delete=False)
SpeakTempFile ==
    /\ vw_pc = "tmp"
    /\ n_tmp' = n_tmp + 1
    /\ vw_tmp' = n_tmp + 1
    /\ tmp_files' = tmp_files \cup {n_tmp + 1}
    /\ vw_pc' = "save"
    /\ UNCHANGED <<voiceVars, vw_req, consumed, played, said, offVoice>>

\* _speak: await tts.save(tmp_file.name) returns.
SpeakSave ==
    /\ vw_pc = "save"
    /\ vw_pc' = "play"
    /\ UNCHANGED workerKeeps

\* _speak: the player's subprocess.run returns, whatever its exit status.
SpeakPlay_records ==
    /\ vw_pc = "play"
    /\ played' = Append(played, vw_req)
    /\ vw_pc' = "unlink"
    /\ recent_messages' = add_message(recent_messages, vw_req[1], vw_req[2],
                                      None)
    /\ UNCHANGED <<voiceVars, vw_req, vw_tmp, tmp_files, n_tmp, consumed, said,
                   agents_present, agents_alone, agentVars, agents, running,
                   room_context, mainVars, hbVars, amVars, deliverVars, refreshVars, clockVars>>

SpeakPlay ==
    /\ vw_pc = "play"
    /\ played' = Append(played, vw_req)
    /\ vw_pc' = "unlink"
    /\ UNCHANGED <<voiceVars, vw_req, vw_tmp, tmp_files, n_tmp, consumed, said,
                   offVoice>>

\* _speak: os.unlink(tmp_file.name) succeeds and _speak returns.
SpeakUnlink ==
    /\ vw_pc = "unlink"
    /\ tmp_files' = tmp_files \ {vw_tmp}
    /\ vw_req' = NoRequest
    /\ vw_tmp' = 0
    /\ vw_pc' = "loop"
    /\ UNCHANGED <<voiceVars, n_tmp, consumed, played, said, offVoice>>

\* _speak: tts.save raises (no network), the player's subprocess.run raises
\* (ffplay is run with capture_output and stderr together, a ValueError), or
\* os.unlink raises (the file is still open, a PermissionError on Windows):
\* control leaves the with block for the handler.
SpeakRaise_ends_thread ==
    /\ vw_pc \in {"save", "play", "unlink"}
    /\ vw_pc' = "done"
    /\ UNCHANGED workerKeeps

SpeakRaise ==
    /\ vw_pc \in {"save", "play", "unlink"}
    /\ vw_pc' = "except"
    /\ UNCHANGED workerKeeps

\* _speak: except Exception as e: print(...), and _speak returns.
SpeakExcept ==
    /\ vw_pc = "except"
    /\ vw_req' = NoRequest
    /\ vw_tmp' = 0
    /\ vw_pc' = "loop"
    /\ UNCHANGED <<voiceVars, tmp_files, n_tmp, consumed, played, said,
                   offVoice>>

Worker ==
    \/ WorkerLoop \/ WorkerEmpty \/ WorkerSleep \/ WorkerGet
    \/ SpeakTempFile \/ SpeakSave \/ SpeakPlay \/ SpeakUnlink
    \/ SpeakRaise \/ SpeakExcept

VoiceNext ==
    \/ VoiceStart
    \/ \E speaker \in Speakers, text \in Utterances : VoiceSay(speaker, text)
    \/ VoiceStop
    \/ Worker

\* The voice channel of a new room, its callers and its worker thread.
SpecVoice == Init /\ [][VoiceNext]_vars

\* The same, the worker thread being scheduled again and again and its sleeps,
\* synthesis and player calls returning.
SpecVoiceFair == SpecVoice /\ WF_vars(Worker)

\* ------------------------------------------- shutdown and the two loops

\* The room says something while the console is idle.
RoomSay ==
    /\ pc = "idle"
    /\ VoiceSay("Alice", "gather round")

\* Start-up, speech, quit or a failed backend call, shutdown, and the two
\* background threads.
ShutdownNext ==
    \/ StartUp \/ RoomSay \/ CmdQuit \/ BackendFail \/ Shutdown
    \/ Heartbeat \/ Worker

SpecShutdown == Init /\ [][ShutdownNext]_vars

\* The same with the threads scheduled again and again: each loop goes on, its
\* sleeps and remote calls return, and the main thread's joins return when the
\* thread has ended or the two seconds have passed.
SpecShutdownFair ==
    SpecShutdown /\ WF_vars(Shutdown) /\ WF_vars(Heartbeat) /\ WF_vars(Worker)

\* ------------------------------------------ claims on the console commands

\* The room is as it was when the command in progress started.
RoomAsBefore ==
    /\ agents_present = pre.present
    /\ agents_alone = pre.alone
    /\ is_present = pre.flags
    /\ recent_messages = pre.hist
    /\ voice_queue = pre.queue

\* A leave of an agent that was alone, or a return of one that was present.
RepeatedTransition ==
    /\ cmd.op \in {"leave", "return"}
    /\ cmd.agent \in Registered
    /\ cmd.op = "leave" => cmd.agent \in pre.alone
    /\ cmd.op = "return" => cmd.agent \in pre.present

\* C2: leave_room on an agent already alone, and return_to_room on one already
\* present, change no flag, no presence set and no history entry, call no
\* backend and report the state the agent is in.
C2_TransitionsIdempotent ==
    (pc = "ret" /\ RepeatedTransition) =>
        /\ RoomAsBefore
        /\ calls = <<>>
        /\ result = IF cmd.op = "leave"
                    THEN cmd.agent \o " is already alone."
                    ELSE cmd.agent \o " is already present."

C2_Witness ==
    /\ pc = "ret"
    /\ RepeatedTransition
    /\ cmd.op = "leave"
    /\ pre.alone # {cmd.agent}

\* C4: a broadcast into an empty room returns the unheard result, calls no
\* backend, and leaves the history, the presence sets and the voice queue as
\* they were.
C4_BroadcastEmptyRoom ==
    (pc = "ret" /\ cmd.op = "broadcast" /\ pre.present = {}) =>
        /\ result = Unheard
        /\ calls = <<>>
        /\ RoomAsBefore

C4_Witness ==
    /\ pc = "ret"
    /\ cmd.op = "broadcast"
    /\ pre.present = {}
    /\ enabled

\* A send whose sender or recipient is no agent of the room.
UnknownParticipant ==
    /\ cmd.op = "send"
    /\ cmd.sender \notin Registered \/ cmd.recipient \notin Registered

\* C5: send_direct_message with an unknown sender or recipient returns the
\* unknown-participant string, raises nothing, calls no backend, appends no
\* history entry, changes no presence set and enqueues no voice request.
C5_SendUnknownParticipant ==
    UnknownParticipant =>
        /\ pc \in {"dm_check", "ret"}
        /\ calls = <<>>
        /\ RoomAsBefore
        /\ pc = "ret" =>
              result = IF cmd.sender \notin Registered
                       THEN "Unknown sender: " \o cmd.sender
                       ELSE "Unknown recipient: " \o cmd.recipient

C5_Witness ==
    /\ pc = "ret"
    /\ UnknownParticipant
    /\ cmd.sender \in Registered
    /\ enabled

\* The history h after n announcements of the message m.
Announced(h, m, n) ==
    LastN(h \o [i \in 1..n |-> [sender |-> "Loudspeaker", content |-> m,
                                 recipient |-> "room"]], HistoryCap)

\* C7: a broadcast into a room where the set P of agents is present, the
\* backend answering, delivers the prefixed message once to each agent of P
\* and to no other, appends |P| entries from "Loudspeaker" to "room", and
\* returns one reply per agent of P, in the order of the deliveries.
C7_BroadcastDelivers ==
    (pc = "ret" /\ cmd.op = "broadcast" /\ pre.present # {}) =>
        LET n == Cardinality(pre.present)
        IN  /\ Len(calls) = n
            /\ {calls[i].agent : i \in 1..n} = pre.present
            /\ \A i \in 1..n :
                  /\ calls[i].op = "send_message"
                  /\ calls[i].message = "[Loudspeaker]: " \o cmd.message
            /\ recent_messages = Announced(pre.hist, cmd.message, n)
            /\ Len(result) = n
            /\ \A i \in 1..n :
                  result[i] \in {calls[i].agent \o ": " \o ExtractReply(r) :
                                    r \in Responses}

C7_Witness ==
    /\ pc = "ret"
    /\ cmd.op = "broadcast"
    /\ Cardinality(pre.present) = 2
    /\ Cardinality(pre.alone) = 2

\* C8: send_direct_message between known agents calls the recipient's backend
\* session once, the recipient present or alone, appends one entry from the
\* sender to the recipient, and leaves the presence sets as they were.
C8_SendIgnoresPresence ==
    (pc = "ret" /\ cmd.op = "send" /\ ~UnknownParticipant) =>
        /\ calls = <<BackendCall("send_message", cmd.recipient,
                                 cmd.sender \o " says: " \o cmd.message)>>
        /\ recent_messages =
               LastN(Append(pre.hist, [sender |-> cmd.sender,
                                       content |-> cmd.message,
                                       recipient |-> cmd.recipient]),
                     HistoryCap)
        /\ agents_present = pre.present
        /\ agents_alone = pre.alone
        /\ is_present = pre.flags

C8_Witness ==
    /\ pc = "ret"
    /\ cmd.op = "send"
    /\ ~UnknownParticipant
    /\ cmd.recipient \in pre.alone
    /\ cmd.sender \in pre.present


\* -------------------------------------------- claims on the presence sets

\* The agents whose proxy has been created.
Created == {a \in DOMAIN agent_id : agent_id[a] # 0}

\* C1: at every point, the intermediate states of leave_room and
\* return_to_room that the heartbeat thread can run in included, every created
\* agent is in exactly one of agents_present and agents_alone.
C1_PartitionAtEveryPoint ==
    /\ agents_present \cap agents_alone = {}
    /\ agents_present \cup agents_alone = Created


\* -------------------------------------------------- claims on the history

\* No call of add_message is in progress.
RecordQuiet == \A t \in Threads : am_pc[t] = "idle"

\* The last min(n, 50) of the n entries recorded.
NewestRecorded ==
    LastN(appended, IF Len(appended) < HistoryCap THEN Len(appended)
                    ELSE HistoryCap)

\* C3: after n calls of add_message, one after another, the history holds the
\* last min(n, 50) entries recorded, in the order recorded, and never more than
\* 50; the same is true of the history the next call returns.
C3_HistoryKeepsNewest ==
    RecordQuiet =>
        /\ Len(appended) = n_calls
        /\ Len(recent_messages) <= HistoryCap
        /\ recent_messages = NewestRecorded
        /\ add_message(recent_messages, NextEntry.sender, NextEntry.content,
                       NextEntry.recipient)
               = LastN(Append(appended, NextEntry),
                       IF n_calls < HistoryCap THEN n_calls + 1 ELSE HistoryCap)

\* The 51st call has returned: the first entry is gone and the 50 after it
\* remain in order.
C3_Witness ==
    /\ RecordQuiet
    /\ n_calls = HistoryCap + 1
    /\ Len(recent_messages) = HistoryCap
    /\ recent_messages[1].content = 2
    /\ recent_messages[HistoryCap].content = HistoryCap + 1

\* C6: with calls of add_message interleaving, the history never holds more
\* than 50 entries in any state, and no entry is lost but the oldest ones past
\* the cap: the history is a run of the newest entries appended, and between
\* calls it is all of the last min(n, 50).
C6_ConcurrentCapHolds ==
    /\ Len(recent_messages) <= HistoryCap
    /\ recent_messages = LastN(appended, Len(recent_messages))
    /\ RecordQuiet => recent_messages = NewestRecorded


\* ------------------------------------------ claims on the voice channel

\* The request r holds a text of 6 characters or more.
SixOrMore(r) == Len(r[2]) >= 6

AllSixOrMore(q) == \A i \in 1..Len(q) : SixOrMore(q[i])

\* C9: a text of fewer than 6 characters handed to say is never enqueued, and
\* so never dequeued, synthesized or played, whoever the speaker and wherever
\* the worker is; with voice enabled every text of 6 characters or more is
\* enqueued, in the order handed over.
C9_ShortUtterancesDropped ==
    /\ AllSixOrMore(voice_queue)
    /\ AllSixOrMore(consumed)
    /\ AllSixOrMore(played)
    /\ enabled => consumed \o voice_queue = SelectSeq(said, SixOrMore)

\* A text of 5 characters and one of 6 were handed over, and the one of 6 was
\* played.
C9_Witness ==
    /\ enabled
    /\ \E i \in 1..Len(said) : said[i] = <<"Alice", "hello">>
    /\ \E i \in 1..Len(said) : said[i] = <<"Alice", "hello!">>
    /\ played = <<(<<"Alice", "hello!">>)>>

\* The worker is between two requests, or has stopped.
WorkerIdle == vw_pc \in {"off", "loop", "empty", "sleep", "get", "done"}

\* C10: the temporary file of a request is deleted before the worker starts
\* the next one, whether synthesis and playback succeeded or failed: when the
\* worker is idle or stopped no temporary file exists.
C10_TempFileDeleted == WorkerIdle => tmp_files = {}

\* A request failed and left its file behind, and the request enqueued after
\* it was played.
FailedThenPlayed ==
    /\ Len(consumed) = 2
    /\ played = <<consumed[2]>>
    /\ tmp_files = {1}

\* C11: a synthesis or playback failure never ends the worker thread, which
\* ends only once running has been cleared, and the thread that calls say is
\* not involved in it; while the worker is running, whatever is in the queue,
\* enqueued before or after a failing request, is dequeued and processed.
C11_FailureDoesNotHaltWorker ==
    /\ [](vw_pc = "done" => ~voice_running)
    /\ (voice_running /\ voice_queue # <<>>)
           ~> (voice_queue = <<>> \/ ~voice_running)
    /\ ~WorkerIdle ~> WorkerIdle

C11_Witness == voice_running /\ FailedThenPlayed /\ vw_pc = "loop"

\* C12: every request enqueued is consumed exactly once and in the order
\* enqueued: the requests dequeued, followed by those still queued, are the
\* requests enqueued, in order; and none stays unconsumed once the worker has
\* ended after the final stop.
C12_ConsumedOnceInOrder ==
    /\ enabled => consumed \o voice_queue = SelectSeq(said, SixOrMore)
    /\ ~enabled => consumed \o voice_queue = <<>>
    /\ vw_pc = "done" => voice_queue = <<>>

\* --------------------------------------------- claims on send_message

\* The assistant turns of the response, in order.
AssistantTurns == SelectSeq(sm_response, LAMBDA m : m.role = "assistant")

HasText(m) == m.text \notin {None, ""}

HasToolCall(m) == m.tool_calls # <<>>

\* C13: send_message returns the text of the first assistant turn when it has
\* one, the arguments of its first tool call when it has a tool call and no
\* text, and "..." only when there is no assistant turn or the first one has
\* neither text nor tool call.
C13_ReplyNormalized ==
    sm_pc = "returned" =>
        IF AssistantTurns = <<>> THEN sm_reply = "..."
        ELSE LET m == AssistantTurns[1]
             IN  /\ HasText(m) => sm_reply = m.text
                 /\ ~HasText(m) /\ HasToolCall(m) => sm_reply = m.tool_calls[1]
                 /\ ~HasText(m) /\ ~HasToolCall(m) => sm_reply = "..."

\* ------------------------------------------------- claims on shutdown

\* shutdown has been called and has not returned.
InShutdown == pc \in {"sd_flag", "sd_join", "sd_voice", "sd_vjoin"}

\* The heartbeat thread, the voice worker thread, is not running.
HeartbeatEnded == hb_pc \in {"off", "done", "dead"}
WorkerEnded == vw_pc \in {"off", "done"}

\* C14: shutdown returns after a bounded wait: none of its steps waits for a
\* thread without a limit, and it ends; and once shutdown has been requested
\* the heartbeat loop and the voice worker both terminate in the end.
C14_ShutdownTerminates ==
    /\ [](InShutdown => ENABLED Shutdown)
    /\ InShutdown ~> (pc = "exited")
    /\ InShutdown ~> HeartbeatEnded
    /\ InShutdown ~> WorkerEnded
    /\ [](pc = "exited" => ~running /\ ~voice_running)

\* Quit was typed with both loops running and a request in the queue;
\* shutdown has returned and both threads have left their loops.
C14_Witness ==
    /\ pc = "exited"
    /\ cmd.op = "quit"
    /\ hb_pc = "done"
    /\ vw_pc = "done"
    /\ said # <<>>

\* ------------------------------------- claims on the two threads' accesses

\* The console thread is between the first and the last write of leave_room
\* or return_to_room to the presence flag and sets.
ConsoleMutating == pc \in {"lv_discard", "lv_add", "rt_discard", "rt_add"}

\* The heartbeat thread is iterating agents_present in update_time_context.
HeartbeatReading == hb_pc = "iter"

\* C15: accesses to RoomState are serialized: the console thread is never in
\* the middle of changing the presence sets while the heartbeat thread is
\* reading them.
C15_RoomStateSerialized == ~(ConsoleMutating /\ HeartbeatReading)

\* The agents whose proxy has been constructed.
Constructed == DOMAIN is_present

\* C16: from the construction of its proxy on, and through every leave_room
\* and return_to_room as the heartbeat thread sees them, an agent's is_present
\* is true exactly when its name is in agents_present and false exactly when
\* its name is in agents_alone.
C16_FlagMirrorsPartition ==
    \A a \in Constructed :
        /\ is_present[a] <=> a \in agents_present
        /\ ~is_present[a] <=> a \in agents_alone

\* The console thread is inside leave_room or return_to_room of agent a, its
\* refresh included, or left it on an exception of the backend.
TransitionUnfinished(a) ==
    /\ cmd.op \in {"leave", "return"}
    /\ cmd.agent = a
    /\ pc \notin {"idle", "ret"}

\* The heartbeat thread is inside update_time_context of agent a.
HeartbeatRefreshing(a) ==
    /\ hb_pc \in {"iter", "call"}
    /\ HeartbeatAgent = a

\* C17: a successful leave_room or return_to_room makes exactly one refresh,
\* for its own agent; and whenever no transition and no refresh of an agent is
\* in progress, the agent's room_context block says it is in the room exactly
\* when its name is in agents_present.
C17_ContextFollowsPresence ==
    /\ pc = "ret" /\ cmd.op \in {"leave", "return"} /\ result = TransitionResult
           => /\ Len(calls) = 1
              /\ calls[1].op = "update_agent_memory"
              /\ calls[1].agent = cmd.agent
    /\ \A a \in Created :
           ~TransitionUnfinished(a) /\ ~HeartbeatRefreshing(a)
               => room_context[a] = ContextValue(a \in agents_present)

\* The console thread has a backend call on agent a's session in flight: the
\* update_agent_memory of a transition, or the send_message of a broadcast or
\* of a direct message.
ConsoleCallOn(a) ==
    \/ pc = "utc_call" /\ cmd.agent = a
    \/ pc = "bc_reply" /\ BroadcastName = a
    \/ pc = "dm_reply" /\ cmd.recipient = a

\* The heartbeat thread has its update_agent_memory on agent a in flight.
HeartbeatCallOn(a) == hb_pc = "call" /\ HeartbeatAgent = a

\* C18: no two backend calls on the same agent's session are in flight at once.
C18_SessionSingleWriter ==
    \A a \in Created : ~(ConsoleCallOn(a) /\ HeartbeatCallOn(a))

\* ------------------------------------------- claims on cancellation

\* The heartbeat thread wakes with running cleared and leaves its loop: it
\* goes to no refresh.
HeartbeatWakeExits ==
    hb_pc = "sleep" /\ ~running => hb_pc' \in {"sleep", "check", "done"}

\* The voice worker wakes to its test of running, and with running cleared
\* the test ends the loop: it goes to no dequeue.
WorkerWakeExits ==
    /\ vw_pc = "sleep" => vw_pc' \in {"sleep", "loop"}
    /\ vw_pc = "loop" /\ ~voice_running => vw_pc' \in {"loop", "done"}

\* C19: once shutdown has cleared the running flag, the heartbeat thread at
\* its next wake-up exits without another refresh, and the voice worker at its
\* next wake-up exits without another dequeue.
C19_CancelAtWakeUp == [][HeartbeatWakeExits /\ WorkerWakeExits]_vars

\* ---------------------------------------------- claims on the ticks

\* A refresh the tick has started is not cut short by what the console thread
\* does meanwhile: it goes on to its backend call.
RefreshGoesOn == running /\ hb_pc = "iter" => hb_pc' \in {"iter", "call"}

\* A tick returns to the test of running only from the last of the agents.
TickCoversAll ==
    hb_pc \in {"utc", "call"} /\ hb_pc' = "check" => hb_i = Len(Names)

\* C20: while the room is running every tick of the heartbeat refreshes all
\* four agents, present or alone, whatever console commands run between its
\* steps: no tick is cut short, so the refreshes go on for as long as the room
\* runs.
C20_EveryTickRefreshesAll == [][RefreshGoesOn /\ TickCoversAll]_vars

\* ------------------------------------- claims on a failing backend call

\* The main thread is in a backend call of a console command.
InCommandCall == pc \in {"utc_call", "bc_reply", "dm_reply"}

\* A backend call of the console command in cmd has raised.
CommandRaised ==
    /\ cmd.op \in {"broadcast", "send", "leave", "return"}
    /\ pc \in {"sd_flag", "sd_join", "sd_voice", "sd_vjoin", "exited"}

\* No backend call of the command in progress is made twice.
CallsOnce == \A i, j \in 1..Len(calls) : i # j => calls[i] # calls[j]

\* After a failed call the command makes no backend call, no history append
\* and no voice enqueue.
NothingAfterFailure ==
    CommandRaised => UNCHANGED <<calls, recent_messages, voice_queue,
                                 room_context>>

\* A backend call of a command does not end with the console shutting down.
ConsoleSurvives == InCommandCall => pc' # "sd_flag"

\* C21: within one command each backend call is attempted at most once; after
\* a failed call the command makes no further backend call, history append or
\* voice enqueue; and the failure aborts that command only, not the console.
C21_FailureAbortsCommandOnly ==
    /\ []CallsOnce
    /\ [][NothingAfterFailure]_vars
    /\ [][ConsoleSurvives]_vars

\* ------------------------------------------------ claims on start-up

\* initialize_agents has returned.
Initialized == Len(agents) = Len(Names) /\ pc # "ia_others"

\* Every proxy holds a handle, and its lookup of the others maps exactly the
\* three other agents to their handles.
SiblingsKnown ==
    \A a \in NameSet :
        /\ agent_id[a] # 0
        /\ DOMAIN other_agents[a] = NameSet \ {a}
        /\ \A b \in NameSet \ {a} : other_agents[a][b] = agent_id[b]

\* C22: when initialize_agents has returned the four agents, created in the
\* order Alice, Bob, Charlie, Diana, are all present and none is alone; from
\* then on every proxy holds a handle and knows exactly its three siblings by
\* their handles; and no console command is taken and no heartbeat tick runs
\* before that.
C22_InitializedBeforeUse ==
    /\ pc = "start" => /\ agents = Names
                       /\ \A i, j \in 1..Len(Names) :
                              i < j => agent_id[Names[i]] < agent_id[Names[j]]
                       /\ agents_present = NameSet
                       /\ agents_alone = {}
    /\ Initialized => SiblingsKnown
    /\ cmd.op # "none" => Initialized
    /\ hb_pc # "off" => Initialized

\* initialize_agents has just returned, nothing else has run yet.
C22_Witness ==
    /\ pc = "start"
    /\ Initialized
    /\ other_agents["Alice"]["Diana"] = agent_id["Diana"]
    /\ hb_pc = "off"

\* ------------------------------------------- claims on what steps change

\* The conversation state: the presence sets, the proxies' flags, the history.
conversation == <<agents_present, agents_alone, is_present, recent_messages>>

\* C23: every step of the voice worker (dequeue, synthesis, playback, failure,
\* deletion of the file) and every call of say leaves the presence sets, the
\* presence flags and the history as they are.
C23_VoiceLeavesConversation ==
    [][Worker \/ RoomSay => UNCHANGED conversation]_vars

\* The room is full, one request failed and left its file, the next was played.
C23_Witness ==
    /\ agents_present = NameSet
    /\ FailedThenPlayed
    /\ vw_pc = "loop"
    /\ pc = "idle"

\* A direct call of update_time_context on a proxy without agent_id leaves
\* its test: it returns, with no backend call and every variable of the room,
\* the proxies, the backend and the voice channel as before.
NoSessionNoOp ==
    rf_pc = "test" /\ agent_id[rf_agent] = 0 /\ rf_pc' # "test"
        => /\ rf_pc' = "idle"
           /\ UNCHANGED <<roomVars, agentVars, agents, running, voiceVars,
                          room_context, rf_backend>>

\* C24: update_time_context on a proxy with no session handle is a no-op, with
\* no backend call and no change of state; and update_time_context, called any
\* number of times in any state, never changes the presence sets, the presence
\* flags or the history.
C24_RefreshKeepsState ==
    [][NoSessionNoOp /\ (Refresh => UNCHANGED conversation)]_vars

\* One direct call returned at the test of agent_id, another called the
\* backend, and an agent is alone.
C24_Witness ==
    /\ rf_pc = "idle"
    /\ rf_skipped > 0
    /\ rf_backend > 0
    /\ agents_alone # {}

\* ------------------------------------------------ claims on the clock

\* The whole seconds since the room was created.
SinceCreation == now - start_time

\* C25: for a room created d whole seconds ago time_elapsed renders
\* hours:minutes:seconds with hours = d div 3600, minutes = (d mod 3600) div 60
\* and seconds = d mod 60, for every d >= 0, a day or more included; and
\* start_time is never modified.
C25_ElapsedRendersDuration ==
    /\ [](elapsed # None =>
              elapsed = Format02d(SinceCreation \div 3600) \o ":"
                        \o Format02d((SinceCreation % 3600) \div 60) \o ":"
                        \o Format02d(SinceCreation % 60))
    /\ [][start_time' = start_time]_vars

\* ------------------------------------- claims on what presence touches

\* The presence sets and the flags.
presence == <<agents_present, agents_alone, is_present>>

\* A step of leave_room or return_to_room on an agent leaves every other
\* agent's membership and flag, and the history, as they are.
TransitionIsLocal ==
    Presence =>
        /\ \A b \in NameSet \ {cmd'.agent} :
               /\ b \in agents_present' <=> b \in agents_present
               /\ b \in agents_alone' <=> b \in agents_alone
               /\ is_present'[b] = is_present[b]
        /\ recent_messages' = recent_messages

\* C26: leave_room and return_to_room on an agent never change the membership
\* or the flag of another agent and never change the history; broadcast,
\* send_direct_message, get_status and the ticks of the heartbeat never change
\* agents_present, agents_alone or a flag.
C26_PresenceIsLocal ==
    [][/\ TransitionIsLocal
       /\ Messaging \/ CmdStatus \/ Heartbeat => UNCHANGED presence]_vars

\* Alice is alone and Bob in the room, a message is in the history, and the
\* heartbeat is in the middle of a tick.
C26_Witness ==
    /\ agents_alone = {"Alice"}
    /\ "Bob" \in agents_present
    /\ is_present["Bob"]
    /\ recent_messages # <<>>
    /\ hb_pc = "call"
    /\ hb_i = 2

====
